---- MODULE Spec2Model ----
(***************************************************************************)
(* Model of the benchmark timing controller TensileLite::Client::          *)
(* BenchmarkTimer (src/unnamed/part_000) and of the error-checking macro   *)
(* HIP_CHECK_EXC (Tensile/hip/HipUtils.hpp).                               *)
(*                                                                         *)
(* Times are whole clock units (the code's double_millis), counts are      *)
(* naturals.  Configuration values are the non-negative ints a client      *)
(* passes; flop counts of supported problems are positive.  The runner's   *)
(* call sequence is explored for several slices of the configuration, each *)
(* a specification of its own, all without the sleep throttle.             *)
(*                                                                         *)
(* The tensor copy utilities CopyTensorVoid and CopyTensor<T> of           *)
(* HipUtils.hpp are modelled as functions from a tensor descriptor to the  *)
(* hipMemcpyAsync calls they issue; addresses and offsets are in bytes.    *)
(***************************************************************************)
EXTENDS Integers, Sequences, FiniteSets, TLC

\* ------------------------------------------------------------------ bounds
MaxFloor    == 2   \* num-enqueues-per-sync ranges over 0..MaxFloor
MaxCeiling  == 3   \* max-enqueues-per-sync ranges over 0..MaxCeiling
MaxMinFlops == 4   \* min-flops-per-sync ranges over 0..MaxMinFlops
MaxSyncs    == 2   \* num-syncs-per-benchmark ranges over 0..MaxSyncs
MaxFlops    == 2   \* a contraction's flop count ranges over 1..MaxFlops
MaxEvents   == 2   \* the runner records 0..MaxEvents event batches per sync
MaxClock    == 2   \* the steady clock and the device time range over 0..MaxClock
MaxWarmups  == 1   \* num-warmups and the reported warmup count range over 0..MaxWarmups
MaxRuns     == 2   \* num-benchmarks ranges over -1..MaxRuns
MaxCus      == 3   \* the compute-unit count perf.CUs ranges over 1..MaxCus
MaxTiles    == 4   \* tilesPerCu ranges over 0..MaxTiles units of 1/TilesDen
MaxDims     == 2   \* a tensor descriptor has 0..MaxDims dimensions
MaxSize     == 2   \* each size of a tensor descriptor ranges over 0..MaxSize
MaxStride   == 4   \* each stride of a tensor descriptor ranges over 1..MaxStride

\* The resolution of the double tilesPerCu: halves.
TilesDen == 2

\* ----------------------------------------------------------------- helpers
Min(a, b) == IF a < b THEN a ELSE b
Max(a, b) == IF a > b THEN a ELSE b

RECURSIVE SumSeq(_)
SumSeq(s) == IF s = <<>> THEN 0 ELSE Head(s) + SumSeq(Tail(s))

SeqsUpTo(S, n) == UNION {[1..k -> S] : k \in 0..n}

\* ---------------------------------------------------------------- problems
\* m_problem points to nothing a dynamic_cast accepts (NoProblem), to a
\* ContractionProblemGemm, or to a ContractionProblemGroupedGemm whose gemms
\* vector holds one or two members.
NoProblem == [kind |-> "none"]
GemmProblems == {[kind |-> "gemm", flops |-> f] : f \in 1..MaxFlops}
GroupedProblems ==
    {[kind |-> "grouped", gemms |-> g] : g \in SeqsUpTo(1..MaxFlops, 2) \ {<<>>}}
Problems == {NoProblem} \cup GemmProblems \cup GroupedProblems

\* The three problems the benchmark loop measures.
RunnerProblems ==
    {NoProblem, [kind |-> "gemm", flops |-> 1], [kind |-> "grouped", gemms |-> <<1, 1>>]}

Solutions == {"s1", "s2"}

\* hipEvent_t handles start/stop: never created, created, recorded on the
\* stream, or destroyed (the handle value is kept, dangling).
MarkerStates == {"null", "created", "recorded", "destroyed"}

\* TimingEvents: a sequence of batches, each batch given by its event count.
EventLists == SeqsUpTo(0..1, MaxEvents)

VARIABLES
    \* configuration, set by the constructor
    m_numWarmups, m_syncAfterWarmups, m_numBenchmarks, m_numEnqueuesPerSync,
    m_maxEnqueuesPerSync, m_minFlopsPerSync, m_numSyncsPerBenchmark,
    m_numEnqueuesPerSolution, m_useGPUTimer, m_sleepPercent, m_flushTimeUs,
    \* collaborators: the compute-unit count perf.CUs of the hardware and the
    \* tilesPerCu of the projection for the measured problem, in units of
    \* 1/TilesDen
    perfCUs, tilesPerCu,
    \* run counters
    m_numBenchmarksRun, m_numEnqueuesInSolution, m_numSyncsInBenchmark,
    m_curNumEnqueuesPerSync,
    \* time accumulators, host timestamps, device markers
    m_timeInSolution, m_totalGPUTime, m_startTime, m_endTime, start, stop,
    \* active problem and solution
    m_problem, m_solution,
    \* the caller: position in the call sequence, steady clock
    pc, clock,
    \* the device stream: kernel launches issued and not yet completed
    inFlight,
    \* the most recent hook call: its name, whether it threw, whether a
    \* device-runtime call it made returned an error code, the value it
    \* returned, the keys it reported through m_reporter, and for
    \* validateEnqueues its arguments, its local totalTime and the branch taken
    lastHook, threw, hipFailed, retval, m_reporter,
    startEvents, stopEvents, totalTime, timerCase,
    \* the argument of the most recent hook call: the count of a set* hook,
    \* the solution of preSolution, the problem of preProblem
    lastArg,
    \* what the most recent hook blocked on ("device", "event" or "none"),
    \* its uses of a released marker, and for postSolution its local values
    waitedOn, markerFaults, metrics,
    \* history: elapsed time and start-event batches of the validateEnqueues
    \* calls completed since the most recent preSolution, elapsed time of all
    \* validateEnqueues calls ever completed, preBenchmarkRun calls ever made
    sinceTime, sinceEnqueues, everTime, runsStarted,
    \* the tensor copy utilities: the descriptor and the base addresses (in
    \* bytes) they are given, and for CopyTensorVoid and CopyTensor<T> what
    \* the call did: the hipMemcpyAsync calls it issued and whether it threw
    desc, dst, src, voidCopy, typedCopy

config == <<m_numWarmups, m_syncAfterWarmups, m_numBenchmarks, m_numEnqueuesPerSync,
            m_maxEnqueuesPerSync, m_minFlopsPerSync, m_numSyncsPerBenchmark,
            m_useGPUTimer, m_sleepPercent, m_flushTimeUs, perfCUs, tilesPerCu>>
counters == <<m_numBenchmarksRun, m_numEnqueuesInSolution, m_numSyncsInBenchmark,
              m_curNumEnqueuesPerSync>>
timers == <<m_timeInSolution, m_totalGPUTime, m_startTime, m_endTime, start, stop>>
refs == <<m_problem, m_solution>>
validateLocals == <<startEvents, stopEvents, totalTime, timerCase>>
lastCall == <<lastHook, threw, hipFailed, retval, m_reporter, validateLocals,
              lastArg, waitedOn, markerFaults, metrics>>
history == <<sinceTime, sinceEnqueues, everTime, runsStarted>>

transfer == <<desc, dst, src, voidCopy, typedCopy>>

vars == <<config, m_numEnqueuesPerSolution, counters, timers, refs, pc, clock,
          lastCall, history, transfer>>

ctrl == <<config, m_numEnqueuesPerSolution, counters, timers, refs>>
env == <<clock, history, inFlight>>

\* What the most recent hook did: its name, whether it threw, and whether a
\* device-runtime call it made returned a non-zero hipError_t.
Outcome(hook, thrown, failed) ==
    /\ lastHook' = hook
    /\ threw' = thrown
    /\ hipFailed' = failed

Returned(value) == retval' = value
Reported(keys) == m_reporter' = keys

\* The hook is not validateEnqueues.
NotValidating ==
    /\ startEvents' = <<>>
    /\ stopEvents' = <<>>
    /\ totalTime' = 0
    /\ timerCase' = "none"

\* The argument of the hook: a count, a solution or a problem.
Passed(value) == lastArg' = value

\* A hook without such an argument.
NoArgument == Passed(0)

\* A hook that makes no device-runtime call.
NoDeviceCall == waitedOn' = "none" /\ markerFaults' = {}

\* The locals of postSolution outside postSolution.
NoValues == [computed |-> FALSE]
NoMetrics == metrics' = NoValues

\* A hook that returns nothing and reports nothing.
Plain ==
    /\ Returned(0) /\ Reported(<<>>) /\ NotValidating
    /\ NoArgument /\ NoDeviceCall /\ NoMetrics

\* A hook with an empty body.
NoOp(hook) == Outcome(hook, FALSE, FALSE) /\ Plain /\ UNCHANGED <<transfer, ctrl, env>>

\* HIP_CHECK_EXC(expr): throws exactly when expr returned an error code.
HIP_CHECK_EXC(ok) == ~ok

\* -------------------------------------------------------------- constructor
\* The members the constructor and the class initialise.  start and stop are
\* null until preEnqueues creates them.
Constructed ==
    /\ m_numEnqueuesPerSolution = m_numEnqueuesPerSync * m_numSyncsPerBenchmark
    /\ m_numBenchmarksRun = 0
    /\ m_numEnqueuesInSolution = 0
    /\ m_numSyncsInBenchmark = 0
    /\ m_curNumEnqueuesPerSync = 0
    /\ m_timeInSolution = 0
    /\ m_totalGPUTime = 0
    /\ m_startTime = 0
    /\ m_endTime = 0
    /\ start = "null"
    /\ stop = "null"
    /\ m_problem = NoProblem
    /\ m_solution = "none"

NothingCalled ==
    /\ clock = 0
    /\ lastHook = "constructor"
    /\ threw = FALSE
    /\ hipFailed = FALSE
    /\ retval = 0
    /\ m_reporter = <<>>
    /\ startEvents = <<>>
    /\ stopEvents = <<>>
    /\ totalTime = 0
    /\ timerCase = "none"
    /\ lastArg = 0
    /\ waitedOn = "none"
    /\ markerFaults = {}
    /\ metrics = NoValues
    /\ inFlight = 0
    /\ sinceTime = 0
    /\ sinceEnqueues = 0
    /\ everTime = 0
    /\ runsStarted = 0

\* A copy utility that has not been called.
NotCalled == [called |-> FALSE, threw |-> FALSE, copies |-> <<>>]

\* No tensor is being copied: an empty descriptor and neither utility called.
NothingCopied ==
    /\ desc = [sizes |-> <<>>, strides |-> <<>>, elementBytes |-> 1]
    /\ dst = 0
    /\ src = 0
    /\ voidCopy = NotCalled
    /\ typedCopy = NotCalled

\* ------------------------------------------------------- benchmark-run phase
\* The loop test admitting one run more than configured.
needMoreBenchmarkRuns_Inclusive == m_numBenchmarksRun <= m_numBenchmarks

needMoreBenchmarkRuns == m_numBenchmarksRun < m_numBenchmarks

\* An empty body: only the count of calls moves.
preBenchmarkRun ==
    /\ Outcome("preBenchmarkRun", FALSE, FALSE) /\ Plain
    /\ runsStarted' = runsStarted + 1
    /\ UNCHANGED <<transfer, ctrl, clock, inFlight, sinceTime, sinceEnqueues, everTime>>

postBenchmarkRun ==
    /\ m_numBenchmarksRun' = m_numBenchmarksRun + 1
    /\ Outcome("postBenchmarkRun", FALSE, FALSE) /\ Plain
    /\ UNCHANGED <<transfer, config, m_numEnqueuesPerSolution, m_numEnqueuesInSolution,
                   m_numSyncsInBenchmark, m_curNumEnqueuesPerSync, timers, refs, env>>

\* ------------------------------------------------------------ problem phase
preProblem(problem) ==
    /\ m_problem' = problem
    /\ Outcome("preProblem", FALSE, FALSE)
    /\ Returned(0) /\ Reported(<<>>) /\ NotValidating /\ Passed(problem)
    /\ NoDeviceCall /\ NoMetrics
    /\ UNCHANGED <<transfer, config, m_numEnqueuesPerSolution, counters, timers, m_solution, env>>

postProblem == NoOp("postProblem")

\* ----------------------------------------------------------- solution phase
\* The dynamic_cast chain: a grouped batch or a single contraction.
Supported(problem) == problem.kind \in {"grouped", "gemm"}

StaticMetrics ==
    <<"Tile0Granularity", "Tile1Granularity", "CuGranularity", "WaveGranularity",
      "TotalGranularity", "NumCus", "TilesPerCu", "MemReadBytes", "MemWriteBytes">>

SpeedMetrics == <<"TimeUS", "SpeedGFlopsPerCu", "SpeedGFlops">>

\* preSolution with the time accumulator left as the last solution left it.
ResetAtPreSolution_CounterOnly ==
    /\ m_numEnqueuesInSolution' = 0
    /\ UNCHANGED m_timeInSolution

\* The two assignments that open preSolution.
ResetAtPreSolution ==
    /\ m_numEnqueuesInSolution' = 0
    /\ m_timeInSolution' = 0

\* preSolution storing the solution before it casts the problem.
preSolution_StoresFirst(solution) ==
    /\ ResetAtPreSolution
    /\ m_solution' = solution
    /\ IF Supported(m_problem)
       THEN /\ Reported(StaticMetrics)
            /\ Outcome("preSolution", FALSE, FALSE)
       ELSE /\ Reported(<<>>)
            /\ Outcome("preSolution", TRUE, FALSE)
    /\ Returned(0) /\ NotValidating /\ Passed(solution) /\ NoDeviceCall /\ NoMetrics
    /\ sinceTime' = 0
    /\ sinceEnqueues' = 0
    /\ UNCHANGED <<everTime, runsStarted, inFlight>>
    /\ UNCHANGED <<transfer, config, m_numEnqueuesPerSolution, m_numBenchmarksRun,
                   m_numSyncsInBenchmark, m_curNumEnqueuesPerSync, m_totalGPUTime,
                   m_startTime, m_endTime, start, stop, m_problem, clock>>

preSolution(solution) ==
    /\ ResetAtPreSolution
    /\ IF Supported(m_problem)
       THEN /\ m_solution' = solution
            /\ Reported(StaticMetrics)
            /\ Outcome("preSolution", FALSE, FALSE)
       ELSE /\ m_solution' = m_solution
            /\ Reported(<<>>)
            /\ Outcome("preSolution", TRUE, FALSE)
    /\ Returned(0) /\ NotValidating /\ Passed(solution) /\ NoDeviceCall /\ NoMetrics
    /\ sinceTime' = 0
    /\ sinceEnqueues' = 0
    /\ UNCHANGED <<everTime, runsStarted, inFlight>>
    /\ UNCHANGED <<transfer, config, m_numEnqueuesPerSolution, m_numBenchmarksRun,
                   m_numSyncsInBenchmark, m_curNumEnqueuesPerSync, m_totalGPUTime,
                   m_startTime, m_endTime, start, stop, m_problem, clock>>

\* postSolution with the enqueue counter left standing.
ResetAtPostSolution_TimeOnly ==
    /\ m_timeInSolution' = 0
    /\ UNCHANGED m_numEnqueuesInSolution

\* The two assignments that close postSolution.
ResetAtPostSolution ==
    /\ m_timeInSolution' = 0
    /\ m_numEnqueuesInSolution' = 0

\* A double as an unreduced fraction; a zero denominator is the inf or NaN of
\* a floating-point division by zero, which does not trap.
Fraction(n, d) == [num |-> n, den |-> d]

\* double_micros(m_timeInSolution).count() / m_numEnqueuesInSolution - m_flushTimeUs
TimePerEnqueue_us ==
    Fraction(1000 * m_timeInSolution - m_flushTimeUs * m_numEnqueuesInSolution,
             m_numEnqueuesInSolution)

\* The flopCount postSolution reads: gemms[0] of a grouped batch, the
\* contraction itself otherwise.
SolutionFlopCount(problem) ==
    IF problem.kind = "grouped" THEN problem.gemms[1] ELSE problem.flops

\* flopCount / (timePerEnqueue_us) / 1000.0
GFlops(flopCount, time) == Fraction(flopCount * time.den, time.num * 1000)

\* int tiles = pp.granularities.tilesPerCu * perf.CUs: the double product
\* converted to int, the fractional part dropped.
Tiles == (tilesPerCu * perfCUs) \div TilesDen

UsedCus == Min(Tiles, perfCUs)

\* The locals of postSolution at its three report calls.
SolutionMetrics ==
    LET time == TimePerEnqueue_us
        flops == SolutionFlopCount(m_problem)
        speed == GFlops(flops, time)
    IN  [computed |-> TRUE,
         timePerEnqueue_us |-> time,
         flopCount |-> flops,
         gflops |-> speed,
         tiles |-> Tiles,
         usedCus |-> UsedCus,
         gflopsPerCu |-> Fraction(speed.num, speed.den * UsedCus)]

postSolution ==
    /\ IF Supported(m_problem)
       THEN /\ metrics' = SolutionMetrics
            /\ Reported(SpeedMetrics)
            /\ ResetAtPostSolution
            /\ Outcome("postSolution", FALSE, FALSE)
       ELSE /\ NoMetrics
            /\ Reported(<<>>)
            /\ UNCHANGED <<m_timeInSolution, m_numEnqueuesInSolution>>
            /\ Outcome("postSolution", TRUE, FALSE)
    /\ Returned(0) /\ NotValidating /\ NoArgument /\ NoDeviceCall
    /\ UNCHANGED <<history, inFlight>>
    /\ UNCHANGED <<transfer, config, m_numEnqueuesPerSolution, m_numBenchmarksRun,
                   m_numSyncsInBenchmark, m_curNumEnqueuesPerSync, m_totalGPUTime,
                   m_startTime, m_endTime, start, stop, m_problem, m_solution, clock>>

\* The loop test stopping one enqueue early.
needMoreRunsInSolution_OffByOne == m_numEnqueuesInSolution + 1 < m_numEnqueuesPerSolution

needMoreRunsInSolution == m_numEnqueuesInSolution < m_numEnqueuesPerSolution

\* ------------------------------------------------------------- warmup phase
numWarmupRuns == m_numWarmups

\* The test admitting one warmup fewer than configured.
setNumWarmupRuns_OneShort(count) ==
    /\ Outcome("setNumWarmupRuns", count + 1 < m_numWarmups, FALSE)
    /\ Returned(0) /\ Reported(<<>>) /\ NotValidating /\ Passed(count)
    /\ NoDeviceCall /\ NoMetrics
    /\ UNCHANGED <<transfer, ctrl, env>>

setNumWarmupRuns(count) ==
    /\ Outcome("setNumWarmupRuns", count < m_numWarmups, FALSE)
    /\ Returned(0) /\ Reported(<<>>) /\ NotValidating /\ Passed(count)
    /\ NoDeviceCall /\ NoMetrics
    /\ UNCHANGED <<transfer, ctrl, env>>

preWarmup == NoOp("preWarmup")

postWarmup == NoOp("postWarmup")

\* What a hook blocked on.  A completed wait on the whole device, or on an
\* event recorded after the launches, leaves no launch of the stream in flight.
Waited(on) ==
    /\ waitedOn' = on
    /\ inFlight' = IF on = "none" THEN inFlight ELSE 0

validateWarmups(startEv, stopEv) ==
    /\ IF m_syncAfterWarmups /\ Len(stopEv) > 0 /\ stopEv[Len(stopEv)] > 0
       THEN \E ok \in BOOLEAN :
              /\ Outcome("validateWarmups", HIP_CHECK_EXC(ok), ~ok)
              /\ Waited(IF ok THEN "event" ELSE "none")
       ELSE /\ Outcome("validateWarmups", FALSE, FALSE)
            /\ Waited("none")
    /\ startEvents' = startEv
    /\ stopEvents' = stopEv
    /\ totalTime' = 0
    /\ timerCase' = "none"
    /\ markerFaults' = {}
    /\ Returned(0) /\ Reported(<<>>) /\ NoArgument /\ NoMetrics
    /\ UNCHANGED <<transfer, ctrl, clock, history>>

\* --------------------------------------------------------- sync-batch phase
numSyncs == m_numSyncsPerBenchmark

setNumSyncs(count) ==
    /\ m_numSyncsInBenchmark' = count
    /\ Outcome("setNumSyncs", FALSE, FALSE)
    /\ Returned(0) /\ Reported(<<>>) /\ NotValidating /\ Passed(count)
    /\ NoDeviceCall /\ NoMetrics
    /\ UNCHANGED <<transfer, config, m_numEnqueuesPerSolution, m_numBenchmarksRun,
                   m_numEnqueuesInSolution, m_curNumEnqueuesPerSync, timers, refs, env>>

preSyncs == NoOp("preSyncs")

postSyncs == NoOp("postSyncs")

\* ------------------------------------------------------ enqueue-batch sizing
\* Ceiling division, as the spec of numEnqueuesPerSync describes it.
CeilDivide(num, den) == (num + den - 1) \div den

\* The flop count of the first member only, as for the projection.
FirstMemberFlopCount(problem) ==
    IF problem.kind = "grouped" THEN problem.gemms[1] ELSE problem.flops

\* The flopCount the sizing code accumulates: every member of a grouped
\* batch, the single value of a contraction.
TotalFlopCount(problem) ==
    IF problem.kind = "grouped" THEN SumSeq(problem.gemms) ELSE problem.flops

\* The casts tried whether or not a threshold is set.
SizingThrows_Unguarded == ~Supported(m_problem)

\* numEnqueuesPerSync throws when the threshold is set and no cast succeeds.
SizingThrows == m_minFlopsPerSync > 0 /\ ~Supported(m_problem)

EnqueuesByFlops ==
    IF m_minFlopsPerSync > 0
    THEN CeilDivide(m_minFlopsPerSync, TotalFlopCount(m_problem))
    ELSE 0

\* The batch size without the cap at max-enqueues-per-sync.
BatchSize_NoCeiling == Max(m_numEnqueuesPerSync, EnqueuesByFlops)

\* The value numEnqueuesPerSync returns when it does not throw.
BatchSize == Min(Max(m_numEnqueuesPerSync, EnqueuesByFlops), m_maxEnqueuesPerSync)

numEnqueuesPerSync ==
    /\ IF SizingThrows
       THEN Returned(0) /\ Outcome("numEnqueuesPerSync", TRUE, FALSE)
       ELSE Returned(BatchSize) /\ Outcome("numEnqueuesPerSync", FALSE, FALSE)
    /\ Reported(<<>>) /\ NotValidating /\ NoArgument /\ NoDeviceCall /\ NoMetrics
    /\ UNCHANGED <<transfer, ctrl, env>>

\* setNumEnqueuesPerSync re-deriving the per-solution target from the count.
setNumEnqueuesPerSync_Retargets(count) ==
    /\ m_curNumEnqueuesPerSync' = count
    /\ m_numEnqueuesPerSolution' = count * m_numSyncsPerBenchmark
    /\ Outcome("setNumEnqueuesPerSync", FALSE, FALSE)
    /\ Returned(0) /\ Reported(<<>>) /\ NotValidating /\ Passed(count)
    /\ NoDeviceCall /\ NoMetrics
    /\ UNCHANGED <<transfer, config, m_numBenchmarksRun, m_numEnqueuesInSolution,
                   m_numSyncsInBenchmark, timers, refs, env>>

setNumEnqueuesPerSync(count) ==
    /\ m_curNumEnqueuesPerSync' = count
    /\ Outcome("setNumEnqueuesPerSync", FALSE, FALSE)
    /\ Returned(0) /\ Reported(<<>>) /\ NotValidating /\ Passed(count)
    /\ NoDeviceCall /\ NoMetrics
    /\ UNCHANGED <<transfer, config, m_numEnqueuesPerSolution, m_numBenchmarksRun,
                   m_numEnqueuesInSolution, m_numSyncsInBenchmark, timers, refs, env>>

\* ------------------------------------------------------------ enqueue timing
\* A device call on a marker fails for a null handle; on any other handle the
\* runtime decides (ok).  A destroyed handle dangles: the runtime may accept
\* or reject it.
MarkerCallOk(marker, ok) == ok /\ marker # "null"

\* hipDeviceSynchronize blocks the host: the steady clock may advance.
ClockAfterWait == clock .. Min(clock + 1, MaxClock)

Live(marker) == marker \in {"created", "recorded"}

\* hipEventCreate(&marker): a handle still live is overwritten and lost.
CreateFaults(marker, created) == IF created /\ Live(marker) THEN {"leaked"} ELSE {}

\* A device call reading a marker: the handle of a released marker dangles.
ReadFaults(marker) == IF marker = "destroyed" THEN {"readReleased"} ELSE {}

preEnqueues ==
    /\ IF ~m_useGPUTimer
       THEN \E ok \in BOOLEAN, now \in ClockAfterWait :
              /\ clock' = IF ok THEN now ELSE clock
              /\ m_startTime' = IF ok THEN now ELSE m_startTime
              /\ Outcome("preEnqueues", HIP_CHECK_EXC(ok), ~ok)
              /\ Waited(IF ok THEN "device" ELSE "none")
              /\ markerFaults' = {}
              /\ UNCHANGED <<start, stop>>
       ELSE \E createdStart, createdStop, recorded \in BOOLEAN :
              LET s1 == IF createdStart THEN "created" ELSE start
                  recOk == MarkerCallOk(s1, recorded)
              IN  /\ start' = IF recOk THEN "recorded" ELSE s1
                  /\ stop' = IF createdStop THEN "created" ELSE stop
                  /\ Outcome("preEnqueues", FALSE,
                             ~createdStart \/ ~createdStop \/ ~recOk)
                  /\ Waited("none")
                  /\ markerFaults' = CreateFaults(start, createdStart)
                                         \cup CreateFaults(stop, createdStop)
                                         \cup ReadFaults(s1)
                  /\ UNCHANGED <<m_startTime, clock>>
    /\ Returned(0) /\ Reported(<<>>) /\ NotValidating /\ NoArgument /\ NoMetrics
    /\ UNCHANGED <<transfer, config, m_numEnqueuesPerSolution, counters, m_timeInSolution,
                   m_totalGPUTime, m_endTime, refs, history>>

\* hipEventSynchronize(stop) blocks only for a marker recorded on the stream;
\* for one never recorded it returns at once.
postEnqueues(startEv, stopEv) ==
    /\ IF ~m_useGPUTimer
       THEN \E ok \in BOOLEAN, now \in ClockAfterWait :
              /\ clock' = IF ok THEN now ELSE clock
              /\ m_endTime' = IF ok THEN now ELSE m_endTime
              /\ Outcome("postEnqueues", HIP_CHECK_EXC(ok), ~ok)
              /\ Waited(IF ok THEN "device" ELSE "none")
              /\ markerFaults' = {}
              /\ UNCHANGED <<start, stop>>
       ELSE \E recorded, synced \in BOOLEAN :
              LET recOk == MarkerCallOk(stop, recorded)
                  p1 == IF recOk THEN "recorded" ELSE stop
                  syncOk == MarkerCallOk(p1, synced)
              IN  /\ stop' = p1
                  /\ Outcome("postEnqueues", FALSE, ~recOk \/ ~syncOk)
                  /\ Waited(IF syncOk /\ p1 = "recorded" THEN "event" ELSE "none")
                  /\ markerFaults' = ReadFaults(stop)
                  /\ UNCHANGED <<start, m_endTime, clock>>
    /\ Returned(0) /\ Reported(<<>>) /\ NotValidating /\ NoArgument /\ NoMetrics
    /\ UNCHANGED <<transfer, config, m_numEnqueuesPerSolution, counters, m_timeInSolution,
                   m_totalGPUTime, m_startTime, refs, history>>

\* hipEventDestroy releases a live marker; the handle variable keeps its value.
Destroyed(marker) == IF marker \in {"created", "recorded"} THEN "destroyed" ELSE marker

\* sleep_for(totalTime * (m_sleepPercent / 100.0)): the steady clock after
\* the calling thread has slept, within the model's clock range.
ClockAfterSleep(elapsed) ==
    IF m_sleepPercent > 0
    THEN Min(clock + (elapsed * m_sleepPercent) \div 100, MaxClock)
    ELSE clock

\* The tail of validateEnqueues counting the batch size it was told instead
\* of the start-event batches it was given.
Accumulate_CountsRequested(elapsed, startEv) ==
    /\ totalTime' = elapsed
    /\ m_timeInSolution' = m_timeInSolution + elapsed
    /\ m_totalGPUTime' = m_totalGPUTime + elapsed
    /\ m_numEnqueuesInSolution' = m_numEnqueuesInSolution + m_curNumEnqueuesPerSync
    /\ clock' = ClockAfterSleep(elapsed)
    /\ sinceTime' = sinceTime + elapsed
    /\ sinceEnqueues' = sinceEnqueues + Len(startEv)
    /\ everTime' = everTime + elapsed
    /\ UNCHANGED runsStarted

\* The tail of validateEnqueues assigning the elapsed time to the total
\* instead of adding it.
Accumulate_TotalAssigned(elapsed, startEv) ==
    /\ totalTime' = elapsed
    /\ m_timeInSolution' = m_timeInSolution + elapsed
    /\ m_totalGPUTime' = elapsed
    /\ m_numEnqueuesInSolution' = m_numEnqueuesInSolution + Len(startEv)
    /\ clock' = ClockAfterSleep(elapsed)
    /\ sinceTime' = sinceTime + elapsed
    /\ sinceEnqueues' = sinceEnqueues + Len(startEv)
    /\ everTime' = everTime + elapsed
    /\ UNCHANGED runsStarted

\* The tail of validateEnqueues leaving the enqueue counter as it was.
Accumulate_CounterUntouched(elapsed, startEv) ==
    /\ totalTime' = elapsed
    /\ m_timeInSolution' = m_timeInSolution + elapsed
    /\ m_totalGPUTime' = m_totalGPUTime + elapsed
    /\ UNCHANGED m_numEnqueuesInSolution
    /\ clock' = ClockAfterSleep(elapsed)
    /\ sinceTime' = sinceTime + elapsed
    /\ sinceEnqueues' = sinceEnqueues + Len(startEv)
    /\ everTime' = everTime + elapsed
    /\ UNCHANGED runsStarted

\* The tail of validateEnqueues: both accumulators and the enqueue counter.
Accumulate(elapsed, startEv) ==
    /\ totalTime' = elapsed
    /\ m_timeInSolution' = m_timeInSolution + elapsed
    /\ m_totalGPUTime' = m_totalGPUTime + elapsed
    /\ m_numEnqueuesInSolution' = m_numEnqueuesInSolution + Len(startEv)
    /\ clock' = ClockAfterSleep(elapsed)
    /\ sinceTime' = sinceTime + elapsed
    /\ sinceEnqueues' = sinceEnqueues + Len(startEv)
    /\ everTime' = everTime + elapsed
    /\ UNCHANGED runsStarted

\* validateEnqueues left by an exception before its tail.
NothingAccumulated ==
    /\ totalTime' = 0
    /\ UNCHANGED <<m_timeInSolution, m_totalGPUTime, m_numEnqueuesInSolution, clock,
                   history>>

\* Device time left before the model's clock range is exhausted.
DeviceMs == 0 .. (MaxClock - m_totalGPUTime)

\* The test with || in place of &&.
NoMarkerPair_Either == start = "null" \/ stop = "null"

\* The test that sends device timing to the per-enqueue events.
NoMarkerPair == start = "null" /\ stop = "null"

\* hipEventDestroy(marker) on a handle already released releases it again.
DestroyFaults(marker) ==
    IF marker = "destroyed" THEN {"readReleased", "releasedTwice"} ELSE {}

validateEnqueues(startEv, stopEv) ==
    /\ startEvents' = startEv
    /\ stopEvents' = stopEv
    /\ IF m_useGPUTimer
       THEN IF NoMarkerPair
            THEN \* per-enqueue events; back() of an empty vector is undefined
                 \* and at(i) throws past the end of stopEvents
                 \E ok \in BOOLEAN, enqTime \in [1..Len(startEv) -> DeviceMs] :
                   /\ timerCase' = "batched"
                   /\ markerFaults' = {}
                   /\ UNCHANGED <<start, stop>>
                   /\ Waited(IF ok /\ Len(stopEv) > 0 /\ stopEv[Len(stopEv)] > 0
                             THEN "event" ELSE "none")
                   /\ IF ok /\ Len(stopEv) >= Len(startEv)
                      THEN /\ SumSeq(enqTime) \in DeviceMs
                           /\ Accumulate(SumSeq(enqTime), startEv)
                           /\ Outcome("validateEnqueues", FALSE, FALSE)
                      ELSE /\ NothingAccumulated
                           /\ Outcome("validateEnqueues", TRUE, ~ok)
            ELSE \* the single marker pair
                 \E ok \in BOOLEAN, ms \in DeviceMs :
                   LET elapsedOk == ok /\ start = "recorded" /\ stop = "recorded"
                       eventMs == IF elapsedOk THEN ms ELSE 0
                   IN  /\ timerCase' = "pair"
                       /\ start' = Destroyed(start)
                       /\ stop' = Destroyed(stop)
                       /\ markerFaults' = DestroyFaults(start) \cup DestroyFaults(stop)
                       /\ Waited("none")
                       /\ Accumulate(eventMs, startEv)
                       /\ Outcome("validateEnqueues", FALSE,
                                  \/ ~elapsedOk
                                  \/ Destroyed(start) = start
                                  \/ Destroyed(stop) = stop)
       ELSE /\ timerCase' = "host"
            /\ markerFaults' = {}
            /\ UNCHANGED <<start, stop>>
            /\ Waited("none")
            /\ Accumulate(m_endTime - m_startTime, startEv)
            /\ Outcome("validateEnqueues", FALSE, FALSE)
    /\ Returned(0) /\ Reported(<<>>) /\ NoArgument /\ NoMetrics
    /\ UNCHANGED <<transfer, config, m_numEnqueuesPerSolution, m_numBenchmarksRun,
                   m_numSyncsInBenchmark, m_curNumEnqueuesPerSync, m_startTime,
                   m_endTime, refs>>

finalizeReport == NoOp("finalizeReport")

\* ------------------------------------------------- the runner's call sequence
\* Where the runner goes after a hook: on to the next call, or to its handler
\* when the hook threw.
After(next) == IF threw' THEN "caught" ELSE next

CallPreBenchmarkRun ==
    /\ pc = "benchmarkLoop" /\ needMoreBenchmarkRuns
    /\ preBenchmarkRun
    /\ pc' = "problemLoop"

CallPreProblem ==
    /\ pc = "problemLoop"
    /\ \E problem \in RunnerProblems : preProblem(problem)
    /\ pc' = "solutionLoop"

CallPreSolution ==
    /\ pc = "solutionLoop"
    /\ \E solution \in Solutions : preSolution(solution)
    /\ pc' = After("setNumWarmupRuns")

CallSetNumWarmupRuns ==
    /\ pc = "setNumWarmupRuns"
    /\ \E count \in 0..MaxWarmups : setNumWarmupRuns(count)
    /\ pc' = After("preWarmup")

CallPreWarmup ==
    /\ pc = "preWarmup"
    /\ preWarmup
    /\ pc' = "postWarmup"

CallPostWarmup ==
    /\ pc = "postWarmup"
    /\ postWarmup
    /\ pc' = "validateWarmups"

CallValidateWarmups ==
    /\ pc = "validateWarmups"
    /\ \E events \in EventLists : validateWarmups(events, events)
    /\ pc' = After("setNumSyncs")

CallSetNumSyncs ==
    /\ pc = "setNumSyncs"
    /\ setNumSyncs(numSyncs)
    /\ pc' = "preSyncs"

CallPreSyncs ==
    /\ pc = "preSyncs"
    /\ preSyncs
    /\ pc' = "syncLoop"

CallNumEnqueuesPerSync ==
    /\ pc = "syncLoop" /\ needMoreRunsInSolution
    /\ numEnqueuesPerSync
    /\ pc' = After("setNumEnqueuesPerSync")

CallSetNumEnqueuesPerSync ==
    /\ pc = "setNumEnqueuesPerSync"
    /\ setNumEnqueuesPerSync(retval)
    /\ pc' = "preEnqueues"

CallPreEnqueues ==
    /\ pc = "preEnqueues"
    /\ preEnqueues
    /\ pc' = After("postEnqueues")

CallPostEnqueues ==
    /\ pc = "postEnqueues"
    /\ postEnqueues(<<>>, <<>>)
    /\ pc' = After("validateEnqueues")

CallValidateEnqueues ==
    /\ pc = "validateEnqueues"
    /\ \E events \in EventLists : validateEnqueues(events, events)
    /\ pc' = After("syncLoop")

CallPostSyncs ==
    /\ pc = "syncLoop" /\ ~needMoreRunsInSolution
    /\ postSyncs
    /\ pc' = "postSolution"

CallPostSolution ==
    /\ pc = "postSolution"
    /\ postSolution
    /\ pc' = After("solutionLoop")

\* The runner caught the error of a hook and goes on with the next solution.
SkipSolution ==
    /\ pc = "caught"
    /\ pc' = "solutionLoop"
    /\ UNCHANGED <<transfer, ctrl, env, lastCall>>

CallPostProblem ==
    /\ pc = "solutionLoop"
    /\ postProblem
    /\ pc' = "problemLoop"

CallPostBenchmarkRun ==
    /\ pc = "problemLoop"
    /\ postBenchmarkRun
    /\ pc' = "benchmarkLoop"

CallFinalizeReport ==
    /\ pc = "benchmarkLoop" /\ ~needMoreBenchmarkRuns
    /\ finalizeReport
    /\ pc' = "done"

Init ==
    /\ m_numWarmups \in 0..MaxWarmups
    /\ m_syncAfterWarmups \in BOOLEAN
    /\ m_numBenchmarks = 1
    /\ m_numEnqueuesPerSync \in 0..MaxFloor
    /\ m_maxEnqueuesPerSync = MaxCeiling
    /\ m_minFlopsPerSync = MaxMinFlops
    /\ m_numSyncsPerBenchmark \in 0..MaxSyncs
    /\ m_useGPUTimer \in BOOLEAN
    /\ m_sleepPercent = 0
    /\ m_flushTimeUs = 0
    /\ perfCUs = MaxCus
    /\ tilesPerCu = TilesDen
    /\ Constructed
    /\ NothingCalled
    /\ NothingCopied
    /\ pc = "benchmarkLoop"

Next ==
    \/ CallPreBenchmarkRun
    \/ CallPreProblem
    \/ CallPreSolution
    \/ CallSetNumWarmupRuns
    \/ CallPreWarmup
    \/ CallPostWarmup
    \/ CallValidateWarmups
    \/ CallSetNumSyncs
    \/ CallPreSyncs
    \/ CallNumEnqueuesPerSync
    \/ CallSetNumEnqueuesPerSync
    \/ CallPreEnqueues
    \/ CallPostEnqueues
    \/ CallValidateEnqueues
    \/ CallPostSyncs
    \/ CallPostSolution
    \/ SkipSolution
    \/ CallPostProblem
    \/ CallPostBenchmarkRun
    \/ CallFinalizeReport

Spec == Init /\ [][Next]_vars

\* ------------------------------------------------ batch sizing called directly
\* A client that constructs the controller, sets any problem and asks for the
\* batch size, in any order and any number of times.
AskPreProblem ==
    /\ pc = "sizing"
    /\ \E problem \in Problems : preProblem(problem)
    /\ UNCHANGED pc

AskNumEnqueuesPerSync ==
    /\ pc = "sizing"
    /\ numEnqueuesPerSync
    /\ UNCHANGED pc

AskSetNumEnqueuesPerSync ==
    /\ pc = "sizing"
    /\ lastHook = "numEnqueuesPerSync" /\ ~threw
    /\ setNumEnqueuesPerSync(retval)
    /\ UNCHANGED pc

InitSizing ==
    /\ m_numWarmups = 0
    /\ m_syncAfterWarmups = FALSE
    /\ m_numBenchmarks = 1
    /\ m_numEnqueuesPerSync \in 0..MaxFloor
    /\ m_maxEnqueuesPerSync \in 0..MaxCeiling
    /\ m_minFlopsPerSync \in 0..MaxMinFlops
    /\ m_numSyncsPerBenchmark = 1
    /\ m_useGPUTimer = FALSE
    /\ m_sleepPercent = 0
    /\ m_flushTimeUs = 0
    /\ perfCUs = MaxCus
    /\ tilesPerCu = TilesDen
    /\ Constructed
    /\ NothingCalled
    /\ NothingCopied
    /\ pc = "sizing"

NextSizing ==
    \/ AskPreProblem
    \/ AskNumEnqueuesPerSync
    \/ AskSetNumEnqueuesPerSync

SpecSizing == InitSizing /\ [][NextSizing]_vars

\* ------------------------------------------------- several benchmark runs
\* The runner's call sequence for every configured number of runs, each run
\* measuring with one sync of at least one enqueue per solution.
InitRuns ==
    /\ m_numWarmups = 0
    /\ m_syncAfterWarmups = FALSE
    /\ m_numBenchmarks \in -1..MaxRuns
    /\ m_numEnqueuesPerSync = 1
    /\ m_maxEnqueuesPerSync = MaxCeiling
    /\ m_minFlopsPerSync = MaxMinFlops
    /\ m_numSyncsPerBenchmark = 1
    /\ m_useGPUTimer \in BOOLEAN
    /\ m_sleepPercent = 0
    /\ m_flushTimeUs = 0
    /\ perfCUs = MaxCus
    /\ tilesPerCu = TilesDen
    /\ Constructed
    /\ NothingCalled
    /\ NothingCopied
    /\ pc = "benchmarkLoop"

SpecRuns == InitRuns /\ [][Next]_vars

\* ------------------------------------------------------- a runner that goes on
\* The runner is one thread that makes its next call whenever it can.
InitLoop ==
    /\ m_numWarmups = 0
    /\ m_syncAfterWarmups = FALSE
    /\ m_numBenchmarks = 1
    /\ m_numEnqueuesPerSync \in 0..MaxFloor
    /\ m_maxEnqueuesPerSync = MaxCeiling
    /\ m_minFlopsPerSync = MaxMinFlops
    /\ m_numSyncsPerBenchmark \in 0..MaxSyncs
    /\ m_useGPUTimer \in BOOLEAN
    /\ m_sleepPercent = 0
    /\ m_flushTimeUs = 0
    /\ perfCUs = MaxCus
    /\ tilesPerCu = TilesDen
    /\ Constructed
    /\ NothingCalled
    /\ NothingCopied
    /\ pc = "benchmarkLoop"

SpecLoop == InitLoop /\ [][Next]_vars /\ WF_vars(Next)

\* ------------------------------------------------ the asynchronous stream
\* The runner launches its warmups between preWarmup and postWarmup and the
\* enqueues of a batch between preEnqueues and postEnqueues; a launch returns
\* at once and the device completes it later, on its own.
LaunchWarmup ==
    /\ pc = "postWarmup"
    /\ inFlight < m_numWarmups
    /\ inFlight' = inFlight + 1
    /\ UNCHANGED <<transfer, ctrl, pc, clock, history, lastCall>>

IssueEnqueue ==
    /\ pc = "postEnqueues"
    /\ inFlight < m_curNumEnqueuesPerSync
    /\ inFlight' = inFlight + 1
    /\ UNCHANGED <<transfer, ctrl, pc, clock, history, lastCall>>

DeviceCompletes ==
    /\ inFlight > 0
    /\ inFlight' = inFlight - 1
    /\ UNCHANGED <<transfer, ctrl, pc, clock, history, lastCall>>

InitStream ==
    /\ m_numWarmups \in 0..MaxWarmups
    /\ m_syncAfterWarmups \in BOOLEAN
    /\ m_numBenchmarks = 1
    /\ m_numEnqueuesPerSync = 1
    /\ m_maxEnqueuesPerSync = MaxCeiling
    /\ m_minFlopsPerSync = MaxMinFlops
    /\ m_numSyncsPerBenchmark = 1
    /\ m_useGPUTimer \in BOOLEAN
    /\ m_sleepPercent = 0
    /\ m_flushTimeUs = 0
    /\ perfCUs = MaxCus
    /\ tilesPerCu = TilesDen
    /\ Constructed
    /\ NothingCalled
    /\ NothingCopied
    /\ pc = "benchmarkLoop"

NextStream ==
    \/ Next
    \/ LaunchWarmup
    \/ IssueEnqueue
    \/ DeviceCompletes

SpecStream == InitStream /\ [][NextStream]_vars

\* --------------------------------------------- every hardware and projection
\* The runner's call sequence for one benchmark run of one sync per solution,
\* on every compute-unit count and for every tilesPerCu of the projection.
InitMetrics ==
    /\ m_numWarmups = 0
    /\ m_syncAfterWarmups = FALSE
    /\ m_numBenchmarks = 1
    /\ m_numEnqueuesPerSync = 1
    /\ m_maxEnqueuesPerSync = MaxCeiling
    /\ m_minFlopsPerSync = MaxMinFlops
    /\ m_numSyncsPerBenchmark = 1
    /\ m_useGPUTimer = FALSE
    /\ m_sleepPercent = 0
    /\ m_flushTimeUs \in 0..1
    /\ perfCUs \in 1..MaxCus
    /\ tilesPerCu \in 0..MaxTiles
    /\ Constructed
    /\ NothingCalled
    /\ NothingCopied
    /\ pc = "benchmarkLoop"

SpecMetrics == InitMetrics /\ [][Next]_vars

\* ------------------------------------------------------------- tensor copies
\* The descriptors a caller passes: every size, element sizes of one and two
\* bytes, and strides that are packed or padded (a dimension's stride is at
\* least the extent of the dimension before it).
ElementSizes == {1, 2}
Addresses == {0, 64}

StridesFor(sizes) ==
    {st \in [1..Len(sizes) -> 1..MaxStride] :
        \A i \in 2..Len(sizes) : st[i] >= st[i - 1] * sizes[i - 1]}

Descriptors ==
    UNION {{[sizes |-> sz, strides |-> st, elementBytes |-> eb] :
                st \in StridesFor(sz), eb \in ElementSizes} :
            sz \in SeqsUpTo(0..MaxSize, MaxDims)}

RECURSIVE Product(_)
Product(s) == IF s = <<>> THEN 1 ELSE Head(s) * Product(Tail(s))

\* TensorDescriptor::dimensions, totalLogicalElements and index(coord).
dimensions(d) == Len(d.sizes)
totalLogicalElements(d) == Product(d.sizes)
index(d, coord) == SumSeq([i \in 1..Len(coord) |-> coord[i] * d.strides[i]])

\* CoordCount(sizeBegin, sizeEnd): the number of coordinates of the range.
CoordCount(sizes) == Product(sizes)

\* CoordNumbered(num, ...): the coordinate numbered num, first size fastest.
RECURSIVE CoordNumbered(_, _)
CoordNumbered(num, sizes) ==
    IF sizes = <<>> THEN <<>>
    ELSE <<num % Head(sizes)>> \o CoordNumbered(num \div Head(sizes), Tail(sizes))

\* The loop over the dimensions: i is the dimension examined (from 1),
\* contiguous the value of contiguousDimensions so far.
RECURSIVE ContiguousScan(_, _, _, _)
ContiguousScan(d, i, expectedStride, contiguous) ==
    IF i > dimensions(d) \/ d.strides[i] > expectedStride
    THEN contiguous
    ELSE ContiguousScan(d, i + 1,
                        IF i < dimensions(d) THEN d.strides[i] * d.sizes[i]
                                             ELSE expectedStride,
                        i)

contiguousDimensions(d) == ContiguousScan(d, 1, 1, 0)

\* The sizes past the contiguous dimensions, one copy per coordinate of them.
OuterSizes(d) == SubSeq(d.sizes, contiguousDimensions(d) + 1, dimensions(d))
copyCount(d) == CoordCount(OuterSizes(d))

\* std::max_element over the strides of the contiguous dimensions.
maxStride(d) ==
    LET S == {d.strides[i] : i \in 1..contiguousDimensions(d)}
    IN  CHOOSE m \in S : \A n \in S : n <= m

\* copyBytes, with elementSize the descriptor's elementBytes() or sizeof(T).
copyBytes(d, elementSize) ==
    maxStride(d) * d.sizes[contiguousDimensions(d)] * elementSize

\* beginOffset of copy idx (from 0): the element index of its coordinate.
beginOffset(d, idx) ==
    index(d, [i \in 1..contiguousDimensions(d) |-> 0]
               \o CoordNumbered(idx, OuterSizes(d)))

\* The hipMemcpyAsync call CopyTensorVoid issues for copy idx.
VoidMemcpy(d, idx) ==
    LET bytesOffset == d.elementBytes * beginOffset(d, idx)
        dstBytes == dst + bytesOffset
        srcBytes == dst + bytesOffset
    IN  [to |-> dstBytes, from |-> srcBytes, sizeBytes |-> copyBytes(d, d.elementBytes)]

\* The hipMemcpyAsync call CopyTensor<T> issues for copy idx: dst and src are
\* T pointers, so adding beginOffset moves them by sizeofT * beginOffset bytes.
TypedMemcpy(d, sizeofT, idx) ==
    [to |-> dst + sizeofT * beginOffset(d, idx),
     from |-> src + sizeofT * beginOffset(d, idx),
     sizeBytes |-> copyBytes(d, sizeofT)]

\* Both utilities return at once on an empty descriptor, and sizes.at throws
\* when no dimension is contiguous (contiguousDimensions - 1 wraps around).
ReturnsAtOnce(d) == dimensions(d) = 0 \/ totalLogicalElements(d) = 0
AtThrows(d) == ~ReturnsAtOnce(d) /\ contiguousDimensions(d) = 0

\* The hipMemcpyAsync calls a utility can make: all of them succeed
\* (failedAt = 0) or call failedAt returns an error code.
Attempts(d) == IF ReturnsAtOnce(d) \/ AtThrows(d) THEN 0 ELSE copyCount(d)

CopyTensorVoid(d, failedAt) ==
    IF ReturnsAtOnce(d) THEN [called |-> TRUE, threw |-> FALSE, copies |-> <<>>]
    ELSE IF AtThrows(d) THEN [called |-> TRUE, threw |-> TRUE, copies |-> <<>>]
    ELSE LET issued == IF failedAt = 0 THEN copyCount(d) ELSE failedAt
         IN  [called |-> TRUE,
              threw |-> HIP_CHECK_EXC(failedAt = 0),
              copies |-> [k \in 1..issued |-> VoidMemcpy(d, k - 1)]]

CopyTensor(d, sizeofT, failedAt) ==
    IF ReturnsAtOnce(d)
    THEN [called |-> TRUE, threw |-> FALSE, copies |-> <<>>, sizeofT |-> sizeofT]
    ELSE IF AtThrows(d)
    THEN [called |-> TRUE, threw |-> TRUE, copies |-> <<>>, sizeofT |-> sizeofT]
    ELSE LET issued == IF failedAt = 0 THEN copyCount(d) ELSE failedAt
         IN  [called |-> TRUE,
              threw |-> HIP_CHECK_EXC(failedAt = 0),
              copies |-> [k \in 1..issued |-> TypedMemcpy(d, sizeofT, k - 1)],
              sizeofT |-> sizeofT]

\* A caller copies one tensor with each utility, in either order.
CallCopyTensorVoid ==
    /\ ~voidCopy.called
    /\ \E failedAt \in 0..Attempts(desc) :
           voidCopy' = CopyTensorVoid(desc, failedAt)
    /\ UNCHANGED <<desc, dst, src, typedCopy, ctrl, pc, env, lastCall>>

CallCopyTensor ==
    /\ ~typedCopy.called
    /\ \E sizeofT \in ElementSizes, failedAt \in 0..Attempts(desc) :
           typedCopy' = CopyTensor(desc, sizeofT, failedAt)
    /\ UNCHANGED <<desc, dst, src, voidCopy, ctrl, pc, env, lastCall>>

InitCopy ==
    /\ m_numWarmups = 0
    /\ m_syncAfterWarmups = FALSE
    /\ m_numBenchmarks = 1
    /\ m_numEnqueuesPerSync = 1
    /\ m_maxEnqueuesPerSync = 1
    /\ m_minFlopsPerSync = 0
    /\ m_numSyncsPerBenchmark = 1
    /\ m_useGPUTimer = FALSE
    /\ m_sleepPercent = 0
    /\ m_flushTimeUs = 0
    /\ perfCUs = 1
    /\ tilesPerCu = 0
    /\ Constructed
    /\ NothingCalled
    /\ pc = "benchmarkLoop"
    /\ desc \in Descriptors
    /\ dst \in Addresses
    /\ src \in Addresses
    /\ voidCopy = NotCalled
    /\ typedCopy = NotCalled

NextCopy == CallCopyTensorVoid \/ CallCopyTensor

SpecCopy == InitCopy /\ [][NextCopy]_vars

\* ====================================================================== claims
SizingReturned == lastHook = "numEnqueuesPerSync" /\ ~threw

\* C1 as stated: every value r that numEnqueuesPerSync returns satisfies
\* max(configured floor, enqueues-by-flops) <= r <= configured ceiling.
C1_WithinFloorAndCeiling ==
    SizingReturned =>
        /\ Max(m_numEnqueuesPerSync, EnqueuesByFlops) <= retval
        /\ retval <= m_maxEnqueuesPerSync

\* C1 amended: the value returned is min(max(floor, enqueues-by-flops),
\* ceiling): it never exceeds the ceiling, it is the larger of the floor and
\* the flops-derived minimum when that does not exceed the ceiling, and it is
\* the ceiling (below that minimum) otherwise.
C1_CappedAtCeiling ==
    SizingReturned =>
        LET lower == Max(m_numEnqueuesPerSync, EnqueuesByFlops)
        IN  /\ retval <= m_maxEnqueuesPerSync
            /\ lower <= m_maxEnqueuesPerSync => retval = lower
            /\ lower > m_maxEnqueuesPerSync => retval = m_maxEnqueuesPerSync

\* A call whose flops-derived minimum exceeds both the floor and the ceiling.
C1_Witness ==
    /\ SizingReturned
    /\ m_minFlopsPerSync > 0
    /\ EnqueuesByFlops > m_numEnqueuesPerSync
    /\ EnqueuesByFlops > m_maxEnqueuesPerSync
    /\ retval = m_maxEnqueuesPerSync

\* The per-launch flop count of a problem as C2 words it: the sum over all
\* members of a grouped batch, the single value otherwise.
PerLaunchFlops(problem) ==
    IF problem.kind = "gemm" THEN problem.flops ELSE SumSeq(problem.gemms)

\* C2: with a threshold set, enqueues-by-flops is the smallest n with
\* n * F >= threshold, F the per-launch flop count of the active problem, and
\* a returned value the ceiling does not cap satisfies r * F >= threshold.
C2_EnoughFlopsPerSync ==
    (SizingReturned /\ m_minFlopsPerSync > 0) =>
        LET F == PerLaunchFlops(m_problem)
            n == EnqueuesByFlops
        IN  /\ n * F >= m_minFlopsPerSync
            /\ (n - 1) * F < m_minFlopsPerSync
            /\ Max(m_numEnqueuesPerSync, n) <= m_maxEnqueuesPerSync
                   => retval * F >= m_minFlopsPerSync

\* A grouped batch of two members, a threshold its flop count does not
\* divide, and a returned value set by the threshold alone.
C2_Witness ==
    /\ SizingReturned
    /\ m_minFlopsPerSync > 0
    /\ m_problem.kind = "grouped"
    /\ Len(m_problem.gemms) = 2
    /\ m_minFlopsPerSync % PerLaunchFlops(m_problem) # 0
    /\ retval = EnqueuesByFlops
    /\ retval > m_numEnqueuesPerSync
    /\ retval < m_maxEnqueuesPerSync

\* C3 as stated: with no threshold numEnqueuesPerSync returns exactly the
\* configured floor, whatever the problem.
C3_ExactlyFloor ==
    (lastHook = "numEnqueuesPerSync" /\ m_minFlopsPerSync = 0) =>
        ~threw /\ retval = m_numEnqueuesPerSync

\* C3 amended: with no threshold numEnqueuesPerSync never throws and returns
\* min(configured floor, configured ceiling), whatever the problem, set or not.
C3_FloorCappedAtCeiling ==
    (lastHook = "numEnqueuesPerSync" /\ m_minFlopsPerSync = 0) =>
        ~threw /\ retval = Min(m_numEnqueuesPerSync, m_maxEnqueuesPerSync)

\* A call with no threshold, no supported problem and a ceiling under the floor.
C3_Witness ==
    /\ lastHook = "numEnqueuesPerSync"
    /\ m_minFlopsPerSync = 0
    /\ ~Supported(m_problem)
    /\ m_maxEnqueuesPerSync < m_numEnqueuesPerSync
    /\ ~threw
    /\ retval = m_maxEnqueuesPerSync

\* C4: in every reachable state enqueues-per-solution is enqueues-per-sync
\* (the configured floor) times syncs-per-benchmark; no hook changes it.
C4_TargetIsProduct ==
    m_numEnqueuesPerSolution = m_numEnqueuesPerSync * m_numSyncsPerBenchmark

\* setNumSyncs and setNumEnqueuesPerSync have recorded the runner's values,
\* the batch size differing from the floor.
C4_Witness ==
    /\ lastHook = "setNumEnqueuesPerSync"
    /\ m_curNumEnqueuesPerSync # m_numEnqueuesPerSync
    /\ m_numSyncsInBenchmark > 0
    /\ m_numEnqueuesPerSolution > 1

\* C5: when postSolution has returned, time-in-solution and
\* enqueues-in-solution are both zero.
C5_ClearedAfterPostSolution ==
    (lastHook = "postSolution" /\ ~threw) =>
        m_timeInSolution = 0 /\ m_numEnqueuesInSolution = 0

\* postSolution has returned for a solution that accumulated time and enqueues.
C5_Witness ==
    /\ lastHook = "postSolution" /\ ~threw
    /\ sinceTime > 0
    /\ sinceEnqueues > 0
    /\ m_timeInSolution = 0
    /\ m_numEnqueuesInSolution = 0

\* The runner is between preSolution and postSolution.
Measuring ==
    pc \in {"setNumWarmupRuns", "preWarmup", "postWarmup", "validateWarmups",
            "setNumSyncs", "preSyncs", "syncLoop", "setNumEnqueuesPerSync",
            "preEnqueues", "postEnqueues", "validateEnqueues", "postSolution"}

\* C6: while a solution is measured, and so when postSolution computes its
\* metrics, time-in-solution is the sum of the elapsed times and
\* enqueues-in-solution the sum of the start-event batch counts of the
\* validateEnqueues calls made since the most recent preSolution.
C6_OneSolutionOnly ==
    Measuring =>
        /\ m_timeInSolution = sinceTime
        /\ m_numEnqueuesInSolution = sinceEnqueues

\* postSolution is about to run for a solution that accumulated time, after
\* earlier solutions accumulated time of their own.
C6_Witness ==
    /\ pc = "postSolution"
    /\ sinceTime > 0
    /\ sinceEnqueues > 0
    /\ m_totalGPUTime > sinceTime

\* C7 as stated: for every configuration enqueues-in-solution is at least 1
\* whenever postSolution is reached.
C7_NeverZeroEnqueues == pc = "postSolution" => m_numEnqueuesInSolution >= 1

\* C7 amended: for every configuration whose enqueues-per-solution is at
\* least 1, enqueues-in-solution is at least 1 whenever postSolution is
\* reached.
C7_NonZeroTarget ==
    (pc = "postSolution" /\ m_numEnqueuesPerSolution >= 1) =>
        m_numEnqueuesInSolution >= 1

\* postSolution is about to run with the target met by a validateEnqueues call.
C7_Witness ==
    /\ pc = "postSolution"
    /\ lastHook = "postSyncs"
    /\ m_numEnqueuesPerSolution >= 1
    /\ m_numEnqueuesInSolution >= m_numEnqueuesPerSolution

\* C8: a validateEnqueues call that returns adds its elapsed time (end minus
\* start timestamp in host mode, the device's answer otherwise) to both
\* time-in-solution and the process-lifetime total, and adds the number of
\* start-event batches to enqueues-in-solution; one that throws adds nothing.
C8_SameElapsedToBoth ==
    [][(pc = "validateEnqueues" /\ lastHook' = "validateEnqueues") =>
          IF threw'
          THEN UNCHANGED <<m_timeInSolution, m_totalGPUTime, m_numEnqueuesInSolution>>
          ELSE /\ m_timeInSolution' = m_timeInSolution + totalTime'
               /\ m_totalGPUTime' = m_totalGPUTime + totalTime'
               /\ ~m_useGPUTimer => totalTime' = m_endTime - m_startTime
               /\ m_numEnqueuesInSolution'
                      = m_numEnqueuesInSolution + Len(startEvents')]_vars

\* A call that returned a positive elapsed time for a number of start-event
\* batches other than the batch size the runner was told.
C8_Witness ==
    /\ lastHook = "validateEnqueues" /\ ~threw
    /\ totalTime > 0
    /\ Len(startEvents) > 0
    /\ Len(startEvents) # m_curNumEnqueuesPerSync
    /\ m_timeInSolution >= totalTime

\* C9 as stated: a device-runtime call that returns an error code in
\* preEnqueues, postEnqueues, validateEnqueues or validateWarmups makes the
\* hook throw.
C9_DeviceErrorsThrow ==
    (/\ lastHook \in {"preEnqueues", "postEnqueues", "validateEnqueues",
                      "validateWarmups"}
     /\ hipFailed) => threw

MarkerPairPopulated == start # "null" /\ stop # "null"
EventListPopulated == Len(startEvents) > 0

\* C10 as stated, for a device-timer measurement whose marker pair was
\* created: the pair and the per-enqueue event list are never both populated,
\* so with the pair populated the event list is not.
C10_NeverBothPopulated ==
    (m_useGPUTimer /\ lastHook = "validateEnqueues" /\ MarkerPairPopulated) =>
        ~EventListPopulated

\* C10 amended: every validateEnqueues call takes exactly one elapsed-time
\* path: the host path without the device timer, the per-enqueue events when
\* both markers are null, the marker pair otherwise, whether or not the event
\* list is populated as well.
C10_OnePathPerCall ==
    lastHook = "validateEnqueues" =>
        timerCase = IF ~m_useGPUTimer THEN "host"
                    ELSE IF start = "null" /\ stop = "null" THEN "batched"
                    ELSE "pair"

\* A device-timer measurement with the marker pair and the event list both
\* populated, timed by the pair.
C10_Witness ==
    /\ m_useGPUTimer
    /\ lastHook = "validateEnqueues"
    /\ start = "destroyed" /\ stop = "destroyed"
    /\ EventListPopulated
    /\ timerCase = "pair"
    /\ totalTime > 0

\* C11: setNumWarmupRuns(count) throws exactly when count is below the
\* configured warmup count, whatever the two values, and in both cases leaves
\* every member of the controller as it was.
C11_UnderCountRejected ==
    [][(pc = "setNumWarmupRuns" /\ lastHook' = "setNumWarmupRuns") =>
          /\ threw' = (lastArg' < m_numWarmups)
          /\ UNCHANGED ctrl]_vars

\* An under-count rejected for a controller that has already stored a solution.
C11_Witness ==
    /\ lastHook = "setNumWarmupRuns"
    /\ threw
    /\ lastArg < m_numWarmups
    /\ m_solution # "none"

\* C12: the completed-run count moves only in postBenchmarkRun, by one; the
\* outer loop starts a run exactly while the count is below num-benchmarks,
\* so it has executed num-benchmarks runs (none for a count of zero or less)
\* when the runner reaches finalizeReport, and never more.
C12_ExactlyNumBenchmarksRuns ==
    /\ [](/\ runsStarted <= Max(m_numBenchmarks, 0)
          /\ m_numBenchmarksRun <= runsStarted
          /\ pc = "done" => /\ runsStarted = Max(m_numBenchmarks, 0)
                            /\ m_numBenchmarksRun = runsStarted)
    /\ [][(m_numBenchmarksRun' # m_numBenchmarksRun =>
               /\ lastHook' = "postBenchmarkRun"
               /\ m_numBenchmarksRun' = m_numBenchmarksRun + 1)
           /\ ((pc = "problemLoop" /\ lastHook' = "postBenchmarkRun") =>
                  m_numBenchmarksRun' = m_numBenchmarksRun + 1)
           /\ (runsStarted' # runsStarted =>
                  needMoreBenchmarkRuns /\ runsStarted' = runsStarted + 1)]_vars

\* The runner has stopped after two or more runs that measured device time.
C12_Witness ==
    /\ pc = "done"
    /\ runsStarted >= 2
    /\ m_numBenchmarksRun = m_numBenchmarks
    /\ m_totalGPUTime > 0

\* C13: the total device time is the sum of the elapsed times of all
\* validateEnqueues calls ever completed and is never below time-in-solution;
\* no step decreases it and only validateEnqueues changes it.
C13_TotalAccumulatesForProcess ==
    /\ [](/\ m_totalGPUTime = everTime
          /\ m_totalGPUTime >= m_timeInSolution
          /\ m_timeInSolution >= 0)
    /\ [][/\ m_totalGPUTime' >= m_totalGPUTime
           /\ (m_totalGPUTime' # m_totalGPUTime => lastHook' = "validateEnqueues")]_vars

\* preSolution has cleared time-in-solution in a second benchmark run, the
\* total keeping what earlier solutions measured.
C13_Witness ==
    /\ lastHook = "preSolution"
    /\ runsStarted >= 2
    /\ m_timeInSolution = 0
    /\ m_totalGPUTime > 0
    /\ m_totalGPUTime = everTime

\* Some batch of the stop-event list of the most recent call holds an event.
SomeStopEventRecorded == \E i \in 1..Len(stopEvents) : stopEvents[i] > 0

\* C14: validateWarmups blocks on the last recorded stop event (or fails with
\* the device error) whenever sync-after-warmups is configured and some batch
\* of the stop-event list holds an event, whatever the shape of the list; it
\* does nothing otherwise, and it never changes counters or accumulators.
C14_BlocksWhenAnyBatchRecorded ==
    /\ [](lastHook = "validateWarmups" =>
            IF m_syncAfterWarmups /\ SomeStopEventRecorded
            THEN threw \/ waitedOn = "event"
            ELSE ~threw /\ waitedOn = "none")
    /\ [][(pc = "validateWarmups" /\ lastHook' = "validateWarmups") =>
             UNCHANGED <<counters, m_timeInSolution, m_totalGPUTime>>]_vars

\* C15: preSolution throws exactly when the active problem is neither a
\* single contraction nor a grouped batch (none set included); then it
\* reports nothing and keeps the stored solution; otherwise it reports the
\* nine static metrics, each once, and stores the solution it was given.
C15_TypeMismatchBeforeEffects ==
    [][(pc = "solutionLoop" /\ lastHook' = "preSolution") =>
          IF m_problem.kind \in {"gemm", "grouped"}
          THEN /\ ~threw'
               /\ Len(m_reporter') = 9
               /\ {m_reporter'[i] : i \in 1..9} =
                      {"Tile0Granularity", "Tile1Granularity", "CuGranularity",
                       "WaveGranularity", "TotalGranularity", "NumCus",
                       "TilesPerCu", "MemReadBytes", "MemWriteBytes"}
               /\ m_solution' = lastArg'
          ELSE /\ threw'
               /\ m_reporter' = <<>>
               /\ m_solution' = m_solution]_vars

\* preSolution has thrown for a solution other than the one stored.
C15_Witness ==
    /\ lastHook = "preSolution"
    /\ threw
    /\ m_problem = NoProblem
    /\ m_reporter = <<>>
    /\ m_solution \in Solutions
    /\ lastArg \in Solutions \ {m_solution}

\* postSolution has returned and reported its metrics.
MetricsReported == lastHook = "postSolution" /\ ~threw /\ metrics.computed

\* min(tilesPerCu x totalCus, totalCus) in units of 1/TilesDen.
ExactUsedCus == Min(tilesPerCu * perfCUs, perfCUs * TilesDen)

\* C16: for every tilesPerCu and compute-unit count, postSolution derives
\* used-compute-units = min(tilesPerCu x totalCus, totalCus) and
\* GFLOPS-per-compute-unit = GFLOPS / used-compute-units with that value.
C16_UsedCusIsMinOfProduct ==
    MetricsReported =>
        /\ metrics.usedCus * TilesDen = ExactUsedCus
        /\ metrics.gflopsPerCu.num * (metrics.gflops.den * ExactUsedCus)
               = (metrics.gflops.num * TilesDen) * metrics.gflopsPerCu.den

\* C20: the flop count from which postSolution derives GFLOPS is the total
\* flop count of the active problem, the per-launch total numEnqueuesPerSync
\* sizes batches with: the sum over the members of a grouped batch, the
\* single value of a single contraction.
C20_SameFlopCountAsSizing ==
    MetricsReported => metrics.flopCount = TotalFlopCount(m_problem)

\* C17: in both timer modes no launch of the stream is in flight when
\* validateEnqueues has added the elapsed time of the batch, taken from the
\* host timestamps or from the marker pair, and in host-timer mode none is in
\* flight when preEnqueues takes the start timestamp nor when postEnqueues
\* takes the end timestamp.
C17_BatchCompleteBeforeAccumulated ==
    [][/\ (pc = "validateEnqueues" /\ lastHook' = "validateEnqueues" /\ ~threw'
               /\ timerCase' \in {"host", "pair"}) =>
             inFlight' = 0
       /\ (pc = "preEnqueues" /\ lastHook' = "preEnqueues" /\ ~threw'
               /\ ~m_useGPUTimer) =>
             inFlight' = 0 /\ m_startTime' = clock'
       /\ (pc = "postEnqueues" /\ lastHook' = "postEnqueues" /\ ~threw'
               /\ ~m_useGPUTimer) =>
             inFlight' = 0 /\ m_endTime' = clock']_vars

\* C18: along the call sequence no marker is leaked, released twice or read
\* after its release, no marker is live outside a batch (between preEnqueues
\* and the validateEnqueues that releases the pair), and in host-timer mode
\* no marker is ever created.
C18_MarkersReleasedExactlyOnce ==
    /\ markerFaults = {}
    /\ pc \notin {"postEnqueues", "validateEnqueues"} => ~Live(start) /\ ~Live(stop)
    /\ ~m_useGPUTimer => start = "null" /\ stop = "null"

\* The runner is inside the sync-batch loop of a solution.
InSyncLoop ==
    pc \in {"syncLoop", "setNumEnqueuesPerSync", "preEnqueues", "postEnqueues",
            "validateEnqueues"}

ValidateReturns ==
    pc = "validateEnqueues" /\ lastHook' = "validateEnqueues" /\ ~threw'

\* C19 as stated, without its termination part: the loop goes on exactly
\* while enqueues-in-solution is below enqueues-per-solution, every
\* validateEnqueues strictly increases enqueues-in-solution, and on loop exit
\* enqueues-in-solution has reached enqueues-per-solution.
C19_EveryBatchAdvances ==
    /\ [](pc = "postSolution" => m_numEnqueuesInSolution >= m_numEnqueuesPerSolution)
    /\ [][(pc = "syncLoop" /\ pc' = "postSolution") => ~needMoreRunsInSolution]_vars
    /\ [][ValidateReturns => m_numEnqueuesInSolution' > m_numEnqueuesInSolution]_vars

\* C19 amended: the loop goes on exactly while enqueues-in-solution is below
\* enqueues-per-solution; every validateEnqueues that returns adds the
\* number of start-event batches it was given, none when given none; on loop
\* exit enqueues-in-solution has reached enqueues-per-solution; and the loop
\* terminates whenever every validateEnqueues call is given at least one
\* start-event batch.
C19_TerminatesWhenBatchesRecorded ==
    /\ [](pc = "postSolution" => m_numEnqueuesInSolution >= m_numEnqueuesPerSolution)
    /\ [][(pc = "syncLoop" /\ pc' = "postSolution") => ~needMoreRunsInSolution]_vars
    /\ [][(pc = "syncLoop" /\ pc' = "setNumEnqueuesPerSync") =>
             needMoreRunsInSolution]_vars
    /\ [][ValidateReturns =>
             m_numEnqueuesInSolution'
                 = m_numEnqueuesInSolution + Len(startEvents')]_vars
    /\ [](lastHook = "validateEnqueues" => Len(startEvents) >= 1)
           => (InSyncLoop ~> ~InSyncLoop)

\* The loop has ended after two or more batches, each with start events.
C19_Witness ==
    /\ pc = "postSolution"
    /\ lastHook = "postSyncs"
    /\ m_numEnqueuesPerSolution >= 2
    /\ m_numEnqueuesInSolution >= m_numEnqueuesPerSolution
    /\ m_numEnqueuesInSolution = sinceEnqueues

\* C21: CopyTensorVoid issues the same copies as CopyTensor<T>.  For every
\* tensor descriptor whose element size equals sizeof(T), the i-th copy of
\* both utilities has destination dst + byteOffset_i, source
\* src + byteOffset_i and the same byte count, and when neither call threw
\* both utilities issue the same number of copies.
BothCopied ==
    /\ voidCopy.called
    /\ typedCopy.called
    /\ typedCopy.sizeofT = desc.elementBytes

byteOffset(i) == desc.elementBytes * beginOffset(desc, i - 1)

C21_SameCopiesAsTyped ==
    BothCopied =>
        /\ (~voidCopy.threw /\ ~typedCopy.threw)
              => Len(voidCopy.copies) = Len(typedCopy.copies)
        /\ \A i \in DOMAIN voidCopy.copies \cap DOMAIN typedCopy.copies :
              /\ voidCopy.copies[i].to = dst + byteOffset(i)
              /\ typedCopy.copies[i].to = dst + byteOffset(i)
              /\ voidCopy.copies[i].from = src + byteOffset(i)
              /\ typedCopy.copies[i].from = src + byteOffset(i)
              /\ voidCopy.copies[i].sizeBytes = typedCopy.copies[i].sizeBytes

====
